---- MODULE Spec2Model ----
(***************************************************************************)
(* Smart-wallet provisioning and session-key linkage of the Privy/ZeroDev  *)
(* demo: the MainApp component of src/pages/index.tsx (create, restore,    *)
(* reset of the wallet + session key pair) and the wallet-storage API      *)
(* route of src/pages/api/wallet-storage.ts (the durable store).           *)
(*                                                                         *)
(* Encoding of JavaScript values.  Strings are TLA+ strings; the two       *)
(* non-string values a request field can hold are the tokens Undefined and *)
(* NonString.  Objects are records; null/undefined in an object position   *)
(* is the record Null.  A JS object used as a dictionary (StorageData) is  *)
(* the sequence of its [key, value] properties in insertion order.  The    *)
(* text of the storage file is a sequence of tokens.                       *)
(***************************************************************************)
EXTENDS Integers, Sequences, FiniteSets, Bags

\* ------------------------------------------------------------------ bounds
\* generatePrivateKey() draws from Keys == 1..MaxKey
MaxKey == 2
\* loadExistingWallet runs that may be in flight at once
MaxRestores == 2
\* createWalletAndSessionKey runs that may be in flight at once
MaxCreates == 1
\* requests that may be on their way to the API route at once
MaxInFlight == 2
\* calls of kernelClient.sendTransaction by the send handlers
MaxOps == 2
\* balance checks, timers and fundings in flight when Fund Wallet is clicked
MaxChecks == 1

\* --------------------------------------------------------------- constants
\* const accountIndex = BigInt(1)
AccountIndex == 1
\* const AMOUNT_USDC = BigInt(10000)
AMOUNT_USDC == 10000
\* const AMOUNT_ETH = parseEther("0.000005"), in units of 10^12 wei
AMOUNT_ETH == 5

\* the user ids the store serves, and the Privy accounts that sign in at this
\* browser
Users == {"u1", "u2"}
Accounts == {"u1"}
\* the userId strings a request to the API route may carry
StoreIds == Users \cup {"constructor"}
Keys == 1..MaxKey
\* a stored privateKey string that privateKeyToAccount rejects
BadKey == 0
Undefined == "<undefined>"
NonString == "<non-string>"
Null == [null |-> TRUE]
Network == "BASE"

VARIABLES
  \* wallet-storage.json on the server's disk: NoFile or its text
  file,
  \* the request the API route handled last and the response it gave
  lastRequest, lastResponse,
  \* the invocations of the API route's handler that have begun and not
  \* returned
  server,
  \* the requests sent and not yet taken up by the server
  net,
  \* whether createKernelAccount resolves an account with a `regular`
  \* permission plugin to the address of the sudo-only account
  sdkLinked,
  \* which version of the page is served: src/pages/index.tsx or the earlier
  \* one kept in src/unnamed/part_000
  page,
  \* usePrivy() / useWallets()
  authenticated, user, wallets,
  \* useState of MainApp
  walletInfo, sessionKeyInfo, kernelClient, sessionClient,
  isLoading, isInitialized, transferHash, usdcBalance, ethBalance,
  checkingBalance, transferLoading, commercePaymentLoading,
  commercePaymentHash,
  \* PAYMENT_DETAILS.transferIntent.callData.refundDestination
  refundDestination,
  \* the async runs in flight: checkBalances (and the timers that will call
  \* it, and the fundUserWallet runs that will set such a timer), sendUSDC /
  \* sendDonation / handleCommercePayment
  checks, sends,
  \* the calls of kernelClient.sendTransaction so far, oldest first
  submitted,
  \* a call of transfer / transferETH and what it came to
  call, result,
  \* history: the USDC handed to sendTransaction since the last USDC balance
  \* read completed
  spent,
  \* the async runs in flight, each a bag of the runs' program counters and
  \* locals: loadExistingWallet and createWalletAndSessionKey
  restores, creates,
  \* what the step just taken reported (toasts, return value, console)
  event,
  \* history: what the last create that reported success returned, until a
  \* reset or a new create for its user, and whether the page was loaded
  \* anew since
  returned

apiVars == <<lastRequest, lastResponse, server>>
storeVars == <<file, apiVars>>
privyVars == <<authenticated, user, wallets>>
sessionVars == <<walletInfo, sessionKeyInfo, kernelClient, sessionClient>>
flagVars == <<isLoading, isInitialized>>
payFlagVars == <<checkingBalance, transferLoading, commercePaymentLoading,
                 commercePaymentHash>>
payRunVars == <<refundDestination, checks, sends, submitted, call, result,
                spent>>
payVars == <<transferHash, usdcBalance, ethBalance, payFlagVars, payRunVars>>
envVars == <<sdkLinked, page>>
runVars == <<restores, creates>>
historyVars == <<returned>>
appVars == <<net, envVars, privyVars, sessionVars, flagVars, payVars,
             runVars, event, historyVars>>
vars == <<storeVars, appVars>>

\* ------------------------------------------------------- string <-> bigint
DigitChars == <<"0", "1", "2", "3", "4", "5", "6", "7", "8", "9">>

IsDigit(c) == \E i \in 1..10 : DigitChars[i] = c

DigitVal(c) == (CHOOSE i \in 1..10 : DigitChars[i] = c) - 1

\* BigInt.prototype.toString(): the decimal digits of n, most significant first
RECURSIVE toString(_)
toString(n) ==
  IF n < 10 THEN <<DigitChars[n + 1]>>
  ELSE toString(n \div 10) \o <<DigitChars[(n % 10) + 1]>>

RECURSIVE DecimalValue(_)
DecimalValue(s) ==
  IF s = <<>> THEN 0
  ELSE 10 * DecimalValue(SubSeq(s, 1, Len(s) - 1)) + DigitVal(s[Len(s)])

\* BigInt(string): the value of a decimal string ("" is 0n); a SyntaxError
\* (here -1) for a string with a non-digit
BigIntOf(s) ==
  IF \A i \in 1..Len(s) : IsDigit(s[i]) THEN DecimalValue(s) ELSE -1

\* ------------------------------------------------------------ accounts
\* privateKeyToAccount(k) throws for a string that is no private key
ValidKey(k) == k \in Keys

\* privateKeyToAccount(k).address
SignerAddress(k) == [eoa |-> k, mixed |-> TRUE]

NoPlugin == 0

\* createKernelAccount(publicClient, {plugins: {sudo, regular?}, index}).address:
\* the counterfactual address of the kernel account, in checksum case.
KernelAddress(sudo, regular, index) ==
  [sudo |-> sudo, index |-> index,
   plugin |-> IF sdkLinked THEN NoPlugin ELSE regular,
   mixed |-> TRUE]

\* String.prototype.toLowerCase() on an address
toLowerCase(a) == [a EXCEPT !.mixed = FALSE]

\* createKernelAccountClient({account, ...})
KernelClient(addr) == [account |-> addr]

WalletInfoOf(addr, key, index) ==
  [address |-> addr, privateKey |-> key, index |-> toString(index),
   network |-> Network]

SessionKeyInfoOf(key, acctAddr) ==
  [address |-> SignerAddress(key), privateKey |-> key,
   accountAddress |-> acctAddr, network |-> Network]

\* ------------------------------------------------------------ JS objects
\* Object.prototype.constructor, which every object literal and every object
\* JSON.parse returns inherits
ObjectConstructor == [function |-> "Object"]

\* the value an object inherits for key when it has no own property of that
\* name (Null for undefined)
Inherited(key) == IF key = "constructor" THEN ObjectConstructor ELSE Null

\* obj[key]: the own property, else the inherited one
RECURSIVE Lookup(_, _)
Lookup(obj, key) ==
  IF obj = <<>> THEN Inherited(key)
  ELSE IF obj[1].key = key THEN obj[1].value
  ELSE Lookup(Tail(obj), key)

HasKey(obj, key) == \E i \in 1..Len(obj) : obj[i].key = key

\* an assignment that forgets the other properties of obj
AssignAlone(obj, key, value) == <<[key |-> key, value |-> value]>>

\* obj[key] = value: replaces the property in place, or appends it
Assign(obj, key, value) ==
  IF HasKey(obj, key)
  THEN [i \in 1..Len(obj) |->
          IF obj[i].key = key THEN [key |-> key, value |-> value] ELSE obj[i]]
  ELSE Append(obj, [key |-> key, value |-> value])

\* delete obj[key]
RECURSIVE Delete(_, _)
Delete(obj, key) ==
  IF obj = <<>> THEN <<>>
  ELSE IF obj[1].key = key THEN Delete(Tail(obj), key)
  ELSE <<obj[1]>> \o Delete(Tail(obj), key)

\* ------------------------------------------------------------------ JSON
OpenBrace == [tok |-> "{"]
CloseBrace == [tok |-> "}"]
Member(p) == [tok |-> "member", key |-> p.key, value |-> p.value]

\* JSON.stringify(data, null, 2)
JSONstringify(obj) ==
  <<OpenBrace>> \o [i \in 1..Len(obj) |-> Member(obj[i])] \o <<CloseBrace>>

WellFormed(text) ==
  /\ Len(text) >= 2
  /\ text[1] = OpenBrace
  /\ text[Len(text)] = CloseBrace
  /\ \A i \in 2..(Len(text) - 1) : text[i].tok = "member"

RECURSIVE ObjectOf(_)
ObjectOf(members) ==
  IF members = <<>> THEN <<>>
  ELSE LET m == members[Len(members)]
       IN Assign(ObjectOf(SubSeq(members, 1, Len(members) - 1)), m.key, m.value)

\* JSON.parse(text) of a well-formed text (it throws on any other)
JSONparse(text) == ObjectOf(SubSeq(text, 2, Len(text) - 1))

\* --------------------------------------------------- wallet-storage.ts
NoFile == <<[tok |-> "ENOENT"]>>

\* initializeStorageFile(): creates the file holding {} when it does not exist
initializeStorageFile(f) == IF f = NoFile THEN JSONstringify(<<>>) ELSE f

\* readStorageData(): the parsed file, {} when it does not parse
readStorageData(f) ==
  LET data == initializeStorageFile(f)
  IN IF WellFormed(data) THEN JSONparse(data) ELSE <<>>

\* writeStorageData(data)
writeStorageData(data) == JSONstringify(data)

Response(f, status, body) == [file |-> f, status |-> status, body |-> body]

IsUserId(v) == v \notin {"", Undefined, NonString}

\* handler(req, res): the file it leaves and the response it sends
handler(f, req) ==
  LET f0 == initializeStorageFile(f)
  IN CASE req.method = "GET" ->
            IF ~IsUserId(req.userId) THEN Response(f0, 400, Null)
            ELSE LET userData == Lookup(readStorageData(f0), req.userId)
                 IN IF userData = Null THEN Response(f0, 404, Null)
                    ELSE Response(f0, 200, userData)
       [] req.method = "POST" ->
            IF ~IsUserId(req.userId) THEN Response(f0, 400, Null)
            ELSE IF req.walletInfo = Null \/ req.sessionKeyInfo = Null
            THEN Response(f0, 400, Null)
            ELSE LET postStorageData ==
                       Assign(readStorageData(f0), req.userId,
                              [walletInfo |-> req.walletInfo,
                               sessionKeyInfo |-> req.sessionKeyInfo])
                 IN Response(writeStorageData(postStorageData), 200, Null)
       [] req.method = "DELETE" ->
            IF ~IsUserId(req.userId) THEN Response(f0, 400, Null)
            ELSE LET deleteStorageData == readStorageData(f0)
                 IN IF Lookup(deleteStorageData, req.userId) = Null
                    THEN Response(f0, 404, Null)
                    ELSE Response(
                           writeStorageData(Delete(deleteStorageData, req.userId)),
                           200, Null)
       [] OTHER -> Response(f0, 405, Null)

Request(method, userId, wi, ski) ==
  [method |-> method, userId |-> userId, walletInfo |-> wi,
   sessionKeyInfo |-> ski]

\* ------------------------------------------------ records found on disk
\* the record createWalletAndSessionKey saves for owner key ok, session key sk
CreatedRecord(ok, sk) ==
  [walletInfo |->
     WalletInfoOf(KernelAddress(ok, NoPlugin, AccountIndex), ok, AccountIndex),
   sessionKeyInfo |->
     SessionKeyInfoOf(sk, KernelAddress(ok, sk, AccountIndex))]

\* a record whose session private key is no private key
BadSessionRecord ==
  [CreatedRecord(1, 1) EXCEPT !.sessionKeyInfo.privateKey = BadKey]

\* a record whose index is no decimal string
BadIndexRecord == [CreatedRecord(1, 1) EXCEPT !.walletInfo.index = <<"x">>]

\* a record whose stored address is not the address its owner key derives
StaleAddressRecord ==
  [CreatedRecord(1, 1) EXCEPT
     !.walletInfo.address = KernelAddress(2, NoPlugin, AccountIndex)]

\* a record another client of the API posted, of a wallet at another index
OtherIndexRecord ==
  [walletInfo |->
     WalletInfoOf(KernelAddress(1, NoPlugin, AccountIndex + 1), 1,
                  AccountIndex + 1),
   sessionKeyInfo |->
     SessionKeyInfoOf(1, KernelAddress(1, 1, AccountIndex + 1))]

FileOf(u, rec) == JSONstringify(<<[key |-> u, value |-> rec]>>)

\* a file cut short while being written: it holds u's record and does not parse
TruncatedFile(u, rec) == <<OpenBrace, Member([key |-> u, value |-> rec])>>

\* a file of no bytes
EmptyFile == <<>>

\* wallet-storage.json as the server may find it when it starts
InitFiles ==
  { NoFile,
    EmptyFile,
    TruncatedFile("u1", CreatedRecord(1, 1)),
    TruncatedFile("u2", CreatedRecord(1, 1)),
    FileOf("u1", BadSessionRecord),
    FileOf("u1", BadIndexRecord),
    FileOf("u1", StaleAddressRecord),
    FileOf("u1", OtherIndexRecord) }

\* --------------------------------------------------------------- MainApp
NoEvent == [kind |-> "none"]
WasReset == [reset |-> TRUE]
WalletLists == { <<>>, <<"privy">> }
\* the versions of the page
IndexPage == "src/pages/index.tsx"
DonationPage == "src/unnamed/part_000"
\* PAYMENT_DETAILS.transferIntent.callData.refundDestination as written in the
\* source
PaymentRefundDestination == [literal |-> "0xac8CeB5131449e5850030737D10d1E25C6b8D80B"]

Init ==
  /\ sdkLinked \in BOOLEAN
  /\ page = IndexPage
  /\ file \in IF sdkLinked THEN InitFiles ELSE {NoFile}
  /\ lastRequest = Null
  /\ lastResponse = Null
  /\ server = {}
  /\ net = {}
  /\ authenticated = FALSE
  /\ user = Undefined
  /\ wallets = <<>>
  /\ walletInfo = Null
  /\ sessionKeyInfo = Null
  /\ kernelClient = Null
  /\ sessionClient = Null
  /\ isLoading = FALSE
  /\ isInitialized = FALSE
  /\ transferHash = Null
  /\ usdcBalance = Null
  /\ ethBalance = Null
  /\ checkingBalance = FALSE
  /\ transferLoading = FALSE
  /\ commercePaymentLoading = FALSE
  /\ commercePaymentHash = Null
  /\ refundDestination = PaymentRefundDestination
  /\ checks = EmptyBag
  /\ sends = EmptyBag
  /\ submitted = <<>>
  /\ call = Null
  /\ result = Null
  /\ spent = 0
  /\ restores = EmptyBag
  /\ creates = EmptyBag
  /\ event = NoEvent
  /\ returned = Null

\* a run starts, takes a step, ends
Started(runs, run) == runs (+) SetToBag({run})
Ended(runs, run) == runs (-) SetToBag({run})
Stepped(runs, run, next) == Started(Ended(runs, run), next)

\* a guard that does not look at isInitialized
loadGuardAlways(auth, wl, init, uid) ==
  auth /\ Len(wl) > 0 /\ uid # Undefined

\* the guard of loadExistingWallet
loadGuard(auth, wl, init, uid) ==
  auth /\ Len(wl) > 0 /\ ~init /\ uid # Undefined

\* useEffect(loadExistingWallet, [authenticated, wallets, user?.id]) up to its
\* first await: the effect runs with the values of the render that changed a
\* dependency
loadExistingWallet(auth, wl, uid) ==
  IF loadGuard(auth, wl, isInitialized, uid)
  THEN /\ BagCardinality(restores) < MaxRestores
       /\ restores' = Started(restores, [pc |-> "get", uid |-> uid])
       /\ isLoading' = TRUE
  ELSE UNCHANGED <<restores, isLoading>>

\* login() resolves: usePrivy() reports the user
Login(u) ==
  /\ ~authenticated
  /\ authenticated' = TRUE
  /\ user' = u
  /\ loadExistingWallet(TRUE, wallets, u)
  /\ event' = NoEvent
  /\ UNCHANGED <<storeVars, net, envVars, wallets, sessionVars, isInitialized,
                 payVars, creates, historyVars>>

\* handleLogout: logout() resolves; nothing of the wallet state is cleared
handleLogout ==
  /\ authenticated
  /\ authenticated' = FALSE
  /\ user' = Undefined
  /\ wallets' \in {wallets, <<>>}
  /\ loadExistingWallet(FALSE, wallets', Undefined)
  /\ event' = [kind |-> "toast", toasts |-> {"Logged out successfully"}]
  /\ UNCHANGED <<storeVars, net, envVars, sessionVars, isInitialized,
                 payVars, creates, historyVars>>

\* useWallets() returns a new array
WalletsChange(wl) ==
  /\ wallets' = wl
  /\ loadExistingWallet(authenticated, wl, user)
  /\ event' = NoEvent
  /\ UNCHANGED <<storeVars, net, envVars, authenticated, user, sessionVars,
                 isInitialized, payVars, creates, historyVars>>

\* the finally block of loadExistingWallet; status is the HTTP status of the
\* GET (0 when no answer came)
RestoreFinish(op, outcome, status, toasts) ==
  /\ restores' = Ended(restores, op)
  /\ isLoading' = FALSE
  /\ isInitialized' = TRUE
  /\ event' = [kind |-> "restored", outcome |-> outcome, uid |-> op.uid,
               status |-> status, toasts |-> toasts]

\* axios.get settles.  A rejection of any kind (404, no answer) is caught and
\* logged as "No existing wallet data found"; a 200 enters
\* initializeFromSavedData.
RestoreGot(op) ==
  /\ op.pc = "get"
  /\ \E answered \in BOOLEAN :
       LET res == handler(file, Request("GET", op.uid, Null, Null))
       IN IF answered /\ res.status = 200
          THEN /\ file' = res.file
               /\ restores' =
                    Stepped(restores, op,
                            [pc |-> "derive", uid |-> op.uid,
                             walletData |-> res.body.walletInfo,
                             sessionData |-> res.body.sessionKeyInfo])
               /\ event' = NoEvent
               /\ UNCHANGED <<isLoading, isInitialized>>
          ELSE /\ file' = IF answered THEN res.file ELSE file
               /\ RestoreFinish(op, "notfound", IF answered THEN res.status ELSE 0, {})
  /\ UNCHANGED <<apiVars, net, envVars, privyVars,
                 sessionVars, payVars, creates, historyVars>>

\* the index initializeFromSavedData derives the owner account with
ownerIndexDefault(walletData) == 0

ownerIndex(walletData) == BigIntOf(walletData.index)

\* initializeFromSavedData up to setWalletInfo: the owner account is derived
\* again.  A throw is caught, reported by toast.error, and the catch block's
\* own localStorage.removeItem(STORAGE_KEYS...) leaves the store untouched.
RestoreDerived(op) ==
  /\ op.pc = "derive"
  /\ LET index == ownerIndex(op.walletData)
     IN \E sdkOk \in BOOLEAN :
          IF sdkOk /\ ValidKey(op.walletData.privateKey) /\ index >= 0
          THEN /\ kernelClient' =
                    KernelClient(KernelAddress(op.walletData.privateKey,
                                               NoPlugin, index))
               /\ walletInfo' = op.walletData
               /\ restores' = Stepped(restores, op, [op EXCEPT !.pc = "link"])
               /\ event' = NoEvent
               /\ UNCHANGED <<isLoading, isInitialized>>
          ELSE /\ RestoreFinish(op, "failed", 200,
                                {"Failed to initialize the saved wallet"})
               /\ UNCHANGED <<kernelClient, walletInfo>>
  /\ UNCHANGED <<storeVars, net, envVars, privyVars, sessionKeyInfo,
                 sessionClient, payVars, creates, historyVars>>

\* the index initializeFromSavedData derives the session account with
sessionIndexDefault(walletData) == 0

sessionIndex(walletData) == BigIntOf(walletData.index)

\* initializeFromSavedData from the session signer to its end
RestoreLinked(op) ==
  /\ op.pc = "link"
  /\ LET index == sessionIndex(op.walletData)
     IN \E sdkOk \in BOOLEAN :
          IF sdkOk /\ ValidKey(op.sessionData.privateKey)
          THEN /\ sessionClient' =
                    KernelClient(KernelAddress(op.walletData.privateKey,
                                               op.sessionData.privateKey, index))
               /\ sessionKeyInfo' = op.sessionData
               /\ RestoreFinish(op, "loaded", 200,
                                {"Loaded existing wallet and session key"})
          ELSE /\ RestoreFinish(op, "failed", 200,
                                {"Failed to initialize the saved wallet"})
               /\ UNCHANGED <<sessionClient, sessionKeyInfo>>
  /\ UNCHANGED <<storeVars, net, envVars, privyVars, walletInfo, kernelClient,
                 payVars, creates, historyVars>>

\* the Reset button is rendered
resetEnabled == authenticated /\ walletInfo # Null

\* the Create button is rendered and not disabled
createEnabled == authenticated /\ ~isLoading /\ walletInfo = Null

\* what createWalletAndSessionKey returns and the toasts it showed
CreateReturn(uid, value, toasts) ==
  [kind |-> "created", uid |-> uid, value |-> value, toasts |-> toasts]

\* the catch and finally blocks of createWalletAndSessionKey
CreateFail(op) ==
  /\ creates' = Ended(creates, op)
  /\ event' = CreateReturn(op.uid, Null,
                           {"Error creating wallet and session key"})
  /\ isLoading' = FALSE

\* the end of the try block of createWalletAndSessionKey, and its finally block
CreateSucceed(op, sessionInfo, toasts) ==
  /\ creates' = Ended(creates, op)
  /\ event' =
       CreateReturn(op.uid,
                    [smartWallet |-> op.smartWalletInfo,
                     sessionKey |-> sessionInfo],
                    toasts \cup {"Session Key created and linked to smart wallet on BASE!"})
  /\ isLoading' = FALSE
  /\ returned' = [uid |-> op.uid,
                  smartWallet |-> op.smartWalletInfo,
                  reloaded |-> FALSE]

\* click on Create: createWalletAndSessionKey up to its first await
CreateStart(k) ==
  /\ createEnabled
  /\ BagCardinality(creates) < MaxCreates
  /\ IF \E j \in 1..Len(wallets) : wallets[j] = "privy"
     THEN /\ creates' = Started(creates,
                                [pc |-> "derive", uid |-> user, walletKey |-> k])
          /\ isLoading' = TRUE
          /\ returned' = IF returned # Null /\ returned.uid = user
                         THEN Null ELSE returned
          /\ event' = NoEvent
     ELSE /\ event' = CreateReturn(user, Null, {"No Privy embedded wallet found"})
          /\ UNCHANGED <<creates, isLoading, returned>>
  /\ UNCHANGED <<storeVars, net, envVars, privyVars, sessionVars, isInitialized,
                 payVars, restores>>

\* STEP 1 of createWalletAndSessionKey: the owner account is derived, the
\* kernel client and walletInfo are set, the session key is generated
CreateDerived(op, sk) ==
  /\ op.pc = "derive"
  /\ LET smartWalletAddress == KernelAddress(op.walletKey, NoPlugin, AccountIndex)
         smartWalletInfo == WalletInfoOf(smartWalletAddress, op.walletKey, AccountIndex)
     IN \E sdkOk \in BOOLEAN :
          IF sdkOk
          THEN /\ kernelClient' = KernelClient(smartWalletAddress)
               /\ walletInfo' = smartWalletInfo
               /\ creates' =
                    Stepped(creates, op,
                            [pc |-> "link", uid |-> op.uid,
                             walletKey |-> op.walletKey,
                             smartWalletInfo |-> smartWalletInfo,
                             sessionKey |-> sk])
               /\ event' = NoEvent
               /\ UNCHANGED isLoading
          ELSE /\ CreateFail(op)
               /\ UNCHANGED <<kernelClient, walletInfo>>
  /\ UNCHANGED <<storeVars, net, envVars, privyVars, sessionKeyInfo,
                 sessionClient, isInitialized, payVars, restores, historyVars>>

\* the address comparison of createWalletAndSessionKey: TRUE when it warns
linkageMismatch(sessionAddress, smartWalletAddress) ==
  toLowerCase(sessionAddress) # toLowerCase(smartWalletAddress)

\* STEP 2 of createWalletAndSessionKey: the session account is derived at the
\* same index, the session client and sessionKeyInfo are set, the addresses
\* are compared (a mismatch is logged by console.warn), and the record is posted
CreateLinked(op) ==
  /\ op.pc = "link"
  /\ LET sessionAddress == KernelAddress(op.walletKey, op.sessionKey, AccountIndex)
         sessionInfo == SessionKeyInfoOf(op.sessionKey, sessionAddress)
     IN \E sdkOk \in BOOLEAN :
          IF sdkOk
          THEN /\ sessionClient' = KernelClient(sessionAddress)
               /\ sessionKeyInfo' = sessionInfo
               /\ IF op.uid # Undefined
                  THEN /\ creates' =
                            Stepped(creates, op,
                                    [pc |-> "post", uid |-> op.uid,
                                     walletKey |-> op.walletKey,
                                     smartWalletInfo |-> op.smartWalletInfo,
                                     sessionKey |-> op.sessionKey,
                                     sessionInfo |-> sessionInfo])
                       /\ event' =
                            [kind |-> "console",
                             warn |-> linkageMismatch(sessionAddress,
                                                      op.smartWalletInfo.address)]
                       /\ UNCHANGED <<isLoading, returned>>
                  ELSE CreateSucceed(op, sessionInfo, {})
          ELSE /\ CreateFail(op)
               /\ UNCHANGED <<sessionClient, sessionKeyInfo, returned>>
  /\ UNCHANGED <<storeVars, net, envVars, privyVars, walletInfo, kernelClient,
                 isInitialized, payVars, restores>>

\* the request axios.post sends
SaveRequest(op) == Request("POST", op.uid, op.smartWalletInfo, op.sessionInfo)

\* axios.post settles: the server saved the record and answered, or the
\* request never arrived, or it was saved and the answer was lost.  A
\* rejection is caught and reported by toast.error; the run goes on to report
\* success either way.
CreatePosted(op) ==
  /\ op.pc = "post"
  /\ \E fate \in {"saved", "lost", "unanswered"} :
       /\ file' = IF fate = "lost" THEN file
                  ELSE handler(file, SaveRequest(op)).file
       /\ CreateSucceed(op, op.sessionInfo,
                        IF fate = "saved" THEN {}
                        ELSE {"Failed to save wallet data"})
  /\ UNCHANGED <<apiVars, net, envVars, privyVars,
                 sessionVars, isInitialized, payVars, restores>>

\* the state resetWallet sets
resetStateKeepingHash ==
  [walletInfo |-> Null, sessionKeyInfo |-> Null, kernelClient |-> Null,
   sessionClient |-> Null, transferHash |-> transferHash, usdcBalance |-> Null,
   ethBalance |-> Null]

resetState ==
  [walletInfo |-> Null, sessionKeyInfo |-> Null, kernelClient |-> Null,
   sessionClient |-> Null, transferHash |-> Null, usdcBalance |-> Null,
   ethBalance |-> Null]

\* click on Reset: resetWallet.  The DELETE is sent and not awaited.
resetWallet ==
  /\ resetEnabled
  /\ net' = IF user # Undefined
            THEN net \cup {Request("DELETE", user, Null, Null)}
            ELSE net
  /\ walletInfo' = resetState.walletInfo
  /\ sessionKeyInfo' = resetState.sessionKeyInfo
  /\ kernelClient' = resetState.kernelClient
  /\ sessionClient' = resetState.sessionClient
  /\ transferHash' = resetState.transferHash
  /\ usdcBalance' = resetState.usdcBalance
  /\ ethBalance' = resetState.ethBalance
  /\ event' = [kind |-> "toast",
               toasts |-> {"Wallet data cleared. You can now create a new wallet."}]
  /\ returned' = IF returned # Null /\ returned.uid = user
                 THEN [returned EXCEPT !.smartWallet = WasReset]
                 ELSE returned
  /\ UNCHANGED <<storeVars, envVars, privyVars, flagVars, runVars, payFlagVars,
                 payRunVars>>

\* a request on its way reaches the API route
Deliver(req) ==
  /\ req \in net
  /\ file' = handler(file, req).file
  /\ net' = net \ {req}
  /\ event' = NoEvent
  /\ UNCHANGED <<apiVars, envVars, privyVars, sessionVars,
                 flagVars, payVars, runVars, historyVars>>

\* a request on its way is lost (the .catch of resetWallet only logs)
Lose(req) ==
  /\ req \in net
  /\ net' = net \ {req}
  /\ event' = [kind |-> "console", warn |-> FALSE]
  /\ UNCHANGED <<storeVars, envVars, privyVars, sessionVars, flagVars,
                 payVars, runVars, historyVars>>

\* the file after the POSTs in reqs (those of the creates awaiting their
\* axios.post) have each either reached the API route or not
RECURSIVE Arrivals(_, _)
Arrivals(f, reqs) ==
  IF reqs = {} THEN {f}
  ELSE LET r == CHOOSE x \in reqs : TRUE
       IN Arrivals(f, reqs \ {r}) \cup Arrivals(handler(f, r).file, reqs \ {r})

\* the page is loaded anew: MainApp mounts with its initial state; a POST
\* already sent reaches the API route or does not
Reload ==
  /\ file' \in Arrivals(file, { SaveRequest(op) :
                                  op \in {o \in BagToSet(creates) : o.pc = "post"} })
  /\ authenticated' = FALSE
  /\ user' = Undefined
  /\ wallets' = <<>>
  /\ walletInfo' = Null
  /\ sessionKeyInfo' = Null
  /\ kernelClient' = Null
  /\ sessionClient' = Null
  /\ isLoading' = FALSE
  /\ isInitialized' = FALSE
  /\ transferHash' = Null
  /\ usdcBalance' = Null
  /\ ethBalance' = Null
  /\ checkingBalance' = FALSE
  /\ transferLoading' = FALSE
  /\ commercePaymentLoading' = FALSE
  /\ commercePaymentHash' = Null
  /\ refundDestination' = PaymentRefundDestination
  /\ checks' = EmptyBag
  /\ sends' = EmptyBag
  /\ UNCHANGED <<submitted, call, result>>
  /\ spent' = 0
  /\ restores' = EmptyBag
  /\ creates' = EmptyBag
  /\ event' = NoEvent
  /\ returned' = IF returned = Null THEN Null
                 ELSE [returned EXCEPT !.reloaded = TRUE]
  /\ UNCHANGED <<apiVars, net, envVars>>

Next ==
  \/ \E u \in Accounts : Login(u)
  \/ handleLogout
  \/ \E wl \in WalletLists : WalletsChange(wl)
  \/ \E op \in BagToSet(restores) : RestoreGot(op)
  \/ \E op \in BagToSet(restores) : RestoreDerived(op)
  \/ \E op \in BagToSet(restores) : RestoreLinked(op)
  \/ \E k \in Keys : CreateStart(k)
  \/ \E op \in BagToSet(creates), sk \in Keys : CreateDerived(op, sk)
  \/ \E op \in BagToSet(creates) : CreateLinked(op)
  \/ \E op \in BagToSet(creates) : CreatePosted(op)
  \/ resetWallet
  \/ \E req \in net : Deliver(req)
  \/ \E req \in net : Lose(req)
  \/ Reload

Spec == Init /\ [][Next]_vars

\* the page while Reset is never clicked: no DELETE is ever sent
NoResetNext ==
  \/ \E u \in Accounts : Login(u)
  \/ handleLogout
  \/ \E wl \in WalletLists : WalletsChange(wl)
  \/ \E op \in BagToSet(restores) : RestoreGot(op)
  \/ \E op \in BagToSet(restores) : RestoreDerived(op)
  \/ \E op \in BagToSet(restores) : RestoreLinked(op)
  \/ \E k \in Keys : CreateStart(k)
  \/ \E op \in BagToSet(creates), sk \in Keys : CreateDerived(op, sk)
  \/ \E op \in BagToSet(creates) : CreateLinked(op)
  \/ \E op \in BagToSet(creates) : CreatePosted(op)
  \/ Reload

SpecNoReset == Init /\ [][NoResetNext]_vars

\* ------------------------------------ two users of one browser, in turn
\* the record the store holds for each user: each has created a wallet
RecordOf(u) == IF u = "u1" THEN CreatedRecord(1, 1) ELSE CreatedRecord(2, 2)

TwoUserFile ==
  JSONstringify(<<[key |-> "u1", value |-> RecordOf("u1")],
                  [key |-> "u2", value |-> RecordOf("u2")]>>)

\* the page is loaded, nobody is logged in, the store holds both records
UsersInit ==
  /\ sdkLinked = TRUE
  /\ page = IndexPage
  /\ file = TwoUserFile
  /\ lastRequest = Null
  /\ lastResponse = Null
  /\ server = {}
  /\ net = {}
  /\ authenticated = FALSE
  /\ user = Undefined
  /\ wallets = <<>>
  /\ walletInfo = Null
  /\ sessionKeyInfo = Null
  /\ kernelClient = Null
  /\ sessionClient = Null
  /\ isLoading = FALSE
  /\ isInitialized = FALSE
  /\ transferHash = Null
  /\ usdcBalance = Null
  /\ ethBalance = Null
  /\ checkingBalance = FALSE
  /\ transferLoading = FALSE
  /\ commercePaymentLoading = FALSE
  /\ commercePaymentHash = Null
  /\ refundDestination = PaymentRefundDestination
  /\ checks = EmptyBag
  /\ sends = EmptyBag
  /\ submitted = <<>>
  /\ call = Null
  /\ result = Null
  /\ spent = 0
  /\ restores = EmptyBag
  /\ creates = EmptyBag
  /\ event = NoEvent
  /\ returned = Null

UsersNext ==
  \/ \E u \in Users : Login(u)
  \/ handleLogout
  \/ \E wl \in WalletLists : WalletsChange(wl)
  \/ \E op \in BagToSet(restores) : RestoreGot(op)
  \/ \E op \in BagToSet(restores) : RestoreDerived(op)
  \/ \E op \in BagToSet(restores) : RestoreLinked(op)
  \/ resetWallet
  \/ \E req \in net : Deliver(req)
  \/ \E req \in net : Lose(req)
  \/ Reload

SpecUsers == UsersInit /\ [][UsersNext]_vars

\* ------------------------------------------- the API route on its own
\* the requests any HTTP client may send to /api/wallet-storage
Requests ==
  { Request(m, u, Null, Null) :
      m \in {"GET", "DELETE", "PUT"},
      u \in StoreIds \cup {Undefined, "", NonString} }
  \cup
  { Request("POST", u, wi, ski) :
      u \in StoreIds \cup {Undefined, NonString},
      wi \in {Null} \cup { CreatedRecord(k, 1).walletInfo : k \in 1..2 },
      ski \in {Null, CreatedRecord(1, 1).sessionKeyInfo} }

\* one request handled by the API route
ApiRequest(req) ==
  /\ LET res == handler(file, req)
     IN /\ file' = res.file
        /\ lastRequest' = req
        /\ lastResponse' = [status |-> res.status, body |-> res.body]
  /\ UNCHANGED <<server, appVars>>

StoreNext == \E req \in Requests : ApiRequest(req)

SpecStore == Init /\ [][StoreNext]_vars

\* ------------------------------- the API route, one file access at a time
\* whether the handler, once it runs, lets the event loop take up another
\* request before it has returned: it is synchronous, with no await
handlerYieldsAlways(run) == TRUE

handlerYields(run) == FALSE

\* the response the handler gives to req when it reads file text f
Answer(f, req) ==
  [status |-> handler(f, req).status, body |-> handler(f, req).body]

\* the requests clients send while others are outstanding
ServerRequests ==
  { Request(m, u, Null, Null) : m \in {"GET", "DELETE"}, u \in Users }
  \cup
  { Request("POST", u, CreatedRecord(k, 1).walletInfo,
            CreatedRecord(k, 1).sessionKeyInfo) : u \in Users, k \in 1..2 }

\* a client sends a request
Send(req) ==
  /\ Cardinality(net) < MaxInFlight
  /\ req \notin net
  /\ net' = net \cup {req}
  /\ UNCHANGED <<storeVars, envVars, privyVars, sessionVars, flagVars,
                 payVars, runVars, event, historyVars>>

\* the event loop calls handler(req, res) for a request that has arrived
ServerAccept(req) ==
  /\ req \in net
  /\ \A run \in server : handlerYields(run)
  /\ net' = net \ {req}
  /\ server' = server \cup {[req |-> req, pc |-> "init", next |-> "method",
                              old |-> NoFile, out |-> NoFile]}
  /\ UNCHANGED <<file, lastRequest, lastResponse, envVars, privyVars,
                 sessionVars, flagVars, payVars, runVars, event, historyVars>>

\* res.status(...).json(...): the handler returns
HandlerReturn(run, answer) ==
  /\ server' = server \ {run}
  /\ lastRequest' = run.req
  /\ lastResponse' = answer

\* initializeStorageFile() at the top of handler: fs.existsSync, and
\* fs.writeFileSync when the file is missing
HandlerInit(run) ==
  /\ run.pc = "init"
  /\ server' = (server \ {run}) \cup
                {IF file = NoFile
                 THEN [run EXCEPT !.pc = "open", !.old = file,
                                  !.out = initializeStorageFile(file)]
                 ELSE [run EXCEPT !.pc = "method"]}
  /\ UNCHANGED <<file, lastRequest, lastResponse, appVars>>

\* the switch of handler up to its first fs.writeFileSync: the checks of the
\* request, fs.readFileSync and JSON.parse, and the response of every branch
\* that writes nothing
HandlerMethod(run) ==
  /\ run.pc = "method"
  /\ LET res == handler(file, run.req)
     IN IF run.req.method \in {"POST", "DELETE"} /\ res.status = 200
        THEN /\ server' = (server \ {run}) \cup
                           {[run EXCEPT !.pc = "open", !.next = "return",
                                        !.old = file, !.out = res.file]}
             /\ UNCHANGED <<lastRequest, lastResponse>>
        ELSE HandlerReturn(run, Answer(file, run.req))
  /\ UNCHANGED <<file, appVars>>

\* fs.writeFileSync opens the file: it is created or cut to no bytes
HandlerOpen(run) ==
  /\ run.pc = "open"
  /\ file' = EmptyFile
  /\ server' = (server \ {run}) \cup {[run EXCEPT !.pc = "write"]}
  /\ UNCHANGED <<lastRequest, lastResponse, appVars>>

\* fs.writeFileSync writes the text and closes the file; the handler goes on
\* to its switch, or returns 200
HandlerWrite(run) ==
  /\ run.pc = "write"
  /\ file' = run.out
  /\ IF run.next = "method"
     THEN /\ server' = (server \ {run}) \cup {[run EXCEPT !.pc = "method"]}
          /\ UNCHANGED <<lastRequest, lastResponse>>
     ELSE HandlerReturn(run, [status |-> 200, body |-> Null])
  /\ UNCHANGED appVars

ServerNext ==
  \/ \E req \in ServerRequests : Send(req)
  \/ \E req \in net : ServerAccept(req)
  \/ \E run \in server : HandlerInit(run)
  \/ \E run \in server : HandlerMethod(run)
  \/ \E run \in server : HandlerOpen(run)
  \/ \E run \in server : HandlerWrite(run)

SpecServer == Init /\ [][ServerNext]_vars

\* ------------------------------------------------------------- transfers
\* strings the code takes apart are sequences of characters
TARGET_ADDRESS ==
  <<"0", "x", "8", "D", "3", "3", "6", "1", "4", "C", "b", "c", "9", "7",
    "B", "5", "9", "F", "8", "4", "0", "8", "a", "D", "6", "7", "E", "5",
    "2", "0", "5", "4", "9", "F", "5", "7", "F", "8", "0", "0", "5", "5">>

USDC_TOKEN_ADDRESS ==
  <<"0", "x", "8", "3", "3", "5", "8", "9", "f", "C", "D", "6", "e", "D",
    "b", "6", "E", "0", "8", "f", "4", "c", "7", "C", "3", "2", "D", "4",
    "f", "7", "1", "b", "5", "4", "b", "d", "A", "0", "2", "9", "1", "3">>

\* a recipient with the prefix and too few digits; the target address without
\* its prefix
ShortAddress == <<"0", "x", "1", "2">>
BareAddress == SubSeq(TARGET_ADDRESS, 3, Len(TARGET_ADDRESS))

HexChars ==
  {"0", "1", "2", "3", "4", "5", "6", "7", "8", "9",
   "a", "b", "c", "d", "e", "f", "A", "B", "C", "D", "E", "F"}

\* toAddress.startsWith('0x')
startsWith0x(str) == Len(str) >= 2 /\ str[1] = "0" /\ str[2] = "x"

\* viem's isAddress, ignoring the checksum: 0x and forty hex digits.
\* encodeFunctionData throws InvalidAddressError for an address argument that
\* is not one.
isAddress(str) ==
  /\ Len(str) = 42
  /\ startsWith0x(str)
  /\ \A i \in 3..42 : str[i] \in HexChars

\* the data field of a plain value transfer: "0x"
EmptyData == [hex |-> "0x"]

\* encodeFunctionData({abi: erc20TransferAbi, functionName: 'transfer', args})
encodeFunctionData(recipient, amount) ==
  [functionName |-> "transfer", args |-> <<recipient, amount>>]

\* an omitted tokenAddress; like the empty string it is falsy
Omitted == <<>>

\* the value of a call that returns without one
Void == [undefined |-> TRUE]

\* a function body up to its await of kernelClient.sendTransaction: the
\* requests it hands to sendTransaction, and how it goes on: it awaits the
\* user operation hash, it returns a value at once, or it throws
Awaits(request) == [calls |-> <<request>>, ends |-> "await", value |-> Null]
Returns(value) == [calls |-> <<>>, ends |-> "return", value |-> value]
Throws(error) == [calls |-> <<>>, ends |-> "throw", value |-> [error |-> error]]

\* transfer(kernelClient, toAddress, amount, tokenAddress?) of index.tsx
transfer(toAddress, amount, tokenAddress) ==
  IF ~startsWith0x(toAddress) THEN Throws("Invalid address format")
  ELSE IF tokenAddress # Omitted
  THEN IF ~isAddress(toAddress) THEN Throws("InvalidAddressError")
       ELSE Awaits([to |-> tokenAddress, value |-> 0,
                    data |-> encodeFunctionData(toAddress, amount)])
  ELSE Returns(Void)

\* transferETH(kernelClient, toAddress, amount) of the ETH version of the page
transferETH(toAddress, amount) ==
  IF ~startsWith0x(toAddress) THEN Throws("Invalid address format")
  ELSE Awaits([to |-> toAddress, value |-> amount, data |-> EmptyData])

\* transfer(kernelClient, toAddress, amount) of part_000
transferNative(toAddress, amount) ==
  IF ~startsWith0x(toAddress) THEN Throws("Invalid address format")
  ELSE Awaits([to |-> toAddress, value |-> amount, data |-> EmptyData])

\* the user operation hash sendTransaction resolves to for a request
HashOf(request) == [userOpHash |-> request]

\* what a call that awaits sendTransaction comes to when the bundler accepts
\* the operation or rejects it: the catch block rethrows
Settled(started, accepted) ==
  IF started.ends # "await" THEN started
  ELSE IF accepted
  THEN [started EXCEPT !.ends = "return", !.value = HashOf(started.calls[1])]
  ELSE [started EXCEPT !.ends = "throw", !.value = [error |-> "sendTransaction rejected"]]

Recipients == {TARGET_ADDRESS, ShortAddress, BareAddress, <<>>}
Amounts == {1, AMOUNT_USDC, 2 * AMOUNT_USDC}

\* the calls of the three transfer functions
Calls ==
  { [fn |-> "transfer", toAddress |-> a, amount |-> n, tokenAddress |-> t] :
      a \in Recipients, n \in Amounts, t \in {Omitted, USDC_TOKEN_ADDRESS} }
  \cup
  { [fn |-> f, toAddress |-> a, amount |-> n, tokenAddress |-> Omitted] :
      f \in {"transferETH", "transferNative"}, a \in Recipients, n \in Amounts }

TransferBody(c) ==
  CASE c.fn = "transfer" -> transfer(c.toAddress, c.amount, c.tokenAddress)
    [] c.fn = "transferETH" -> transferETH(c.toAddress, c.amount)
    [] c.fn = "transferNative" -> transferNative(c.toAddress, c.amount)

\* one of the transfer functions is called and runs to its end
TransferCall(c, accepted) ==
  /\ call' = c
  /\ result' = Settled(TransferBody(c), accepted)
  /\ UNCHANGED <<storeVars, net, envVars, privyVars, sessionVars, flagVars,
                 transferHash, usdcBalance, ethBalance, payFlagVars,
                 refundDestination, checks, sends, submitted, spent, runVars, event,
                 historyVars>>

TransferNext == \E c \in Calls, accepted \in BOOLEAN : TransferCall(c, accepted)

SpecTransfer == Init /\ [][TransferNext]_vars

\* ------------------------------------------------ balances and sends
COMMERCE_CONTRACT_ADDRESS ==
  <<"0", "x", "0", "3", "0", "5", "9", "4", "3", "3", "B", "C", "d", "B",
    "6", "1", "4", "4", "6", "2", "4", "c", "C", "2", "4", "4", "3", "1",
    "5", "9", "D", "9", "4", "4", "5", "C", "3", "2", "b", "7", "a", "8">>

\* a bigint held in React state, which holds null before the first read
bigint(n) == [bigint |-> n]

\* what a read of the chain through the public RPC comes to
Read(n) == [ok |-> TRUE, value |-> n]
RpcError == [ok |-> FALSE, value |-> 0]
UsdcReads == {RpcError} \cup {Read(n) : n \in {0, AMOUNT_USDC \div 2, AMOUNT_USDC}}
EthReads == {RpcError} \cup {Read(n) : n \in {0, AMOUNT_ETH}}

\* checkUSDCBalance(address): the balance read; its catch block returns 0n
checkUSDCBalance(read) == IF read.ok THEN read.value ELSE 0

\* the two tests that open sendUSDC and handleCommercePayment, which are also
\* the tests of their buttons' disabled attribute:
\*   !sessionClient;  !usdcBalance || usdcBalance < amount
sendGate(client, balance, amount) ==
  IF client = Null THEN "no-client"
  ELSE IF balance = Null \/ balance.bigint = 0 \/ balance.bigint < amount
  THEN "insufficient"
  ELSE "submit"

\* the test that opens sendDonation
donationGate(client) == IF client = Null THEN "no-client" ELSE "submit"

\* what the catch block of a send handler hands to sendTransaction after a
\* rejection
resubmittedOnce(started) == started.calls

resubmitted(started) == <<>>

\* what the steps of balance checks and sends leave alone
sessionFrame == <<storeVars, net, envVars, privyVars, sessionVars, flagVars,
                  runVars, historyVars, call, result>>

\* the record a create stores for u1
Created == CreatedRecord(1, 1)

\* an Active session of u1, just created; on index.tsx the effect on
\* walletInfo?.address has called checkBalances
PayInit ==
  /\ sdkLinked = TRUE
  /\ page \in {IndexPage, DonationPage}
  /\ file = FileOf("u1", Created)
  /\ lastRequest = Null
  /\ lastResponse = Null
  /\ server = {}
  /\ net = {}
  /\ authenticated = TRUE
  /\ user = "u1"
  /\ wallets = <<"privy">>
  /\ walletInfo = Created.walletInfo
  /\ sessionKeyInfo = Created.sessionKeyInfo
  /\ kernelClient = KernelClient(Created.walletInfo.address)
  /\ sessionClient = KernelClient(Created.sessionKeyInfo.accountAddress)
  /\ isLoading = FALSE
  /\ isInitialized = TRUE
  /\ transferHash = Null
  /\ usdcBalance = Null
  /\ ethBalance = Null
  /\ checkingBalance = (page = IndexPage)
  /\ transferLoading = FALSE
  /\ commercePaymentLoading = FALSE
  /\ commercePaymentHash = Null
  /\ refundDestination = PaymentRefundDestination
  /\ checks = IF page = IndexPage
              THEN SetToBag({[pc |-> "usdc", address |-> Created.walletInfo.address]})
              ELSE EmptyBag
  /\ sends = EmptyBag
  /\ submitted = <<>>
  /\ call = Null
  /\ result = Null
  /\ spent = 0
  /\ restores = EmptyBag
  /\ creates = EmptyBag
  /\ event = NoEvent
  /\ returned = [uid |-> "u1", smartWallet |-> Created.walletInfo,
                 reloaded |-> FALSE]

\* walletInfo?.address as the closures of a render see it
walletAddress == IF walletInfo # Null THEN walletInfo.address ELSE Null

\* click on Refresh Balances: checkBalances up to its first await
checkBalances ==
  /\ page = IndexPage
  /\ walletInfo # Null
  /\ ~checkingBalance
  /\ checkingBalance' = TRUE
  /\ checks' = Started(checks, [pc |-> "usdc", address |-> walletInfo.address])
  /\ event' = NoEvent
  /\ UNCHANGED <<sessionFrame, transferHash, usdcBalance, ethBalance,
                 transferLoading, commercePaymentLoading, commercePaymentHash,
                 refundDestination, sends, submitted, spent>>

\* the timer a send set five seconds ago fires: checkBalances of the render
\* the send was clicked in, whose walletInfo is the one of that render (and
\* which returns at once when that render had no walletInfo)
TimerFires(run) ==
  /\ run.pc = "timer"
  /\ checkingBalance' = IF run.address = Null THEN checkingBalance ELSE TRUE
  /\ checks' = IF run.address = Null THEN Ended(checks, run)
               ELSE Stepped(checks, run, [run EXCEPT !.pc = "usdc"])
  /\ event' = NoEvent
  /\ UNCHANGED <<sessionFrame, transferHash, usdcBalance, ethBalance,
                 transferLoading, commercePaymentLoading, commercePaymentHash,
                 refundDestination, sends, submitted, spent>>

\* checkBalances: await checkUSDCBalance(...) settles; setUsdcBalance
CheckUsdcRead(run, read) ==
  /\ run.pc = "usdc"
  /\ usdcBalance' = bigint(checkUSDCBalance(read))
  /\ checks' = Stepped(checks, run, [run EXCEPT !.pc = "eth"])
  /\ event' = [kind |-> "balance", asset |-> "USDC", read |-> read]
  /\ UNCHANGED <<sessionFrame, transferHash, ethBalance, checkingBalance,
                 transferLoading, commercePaymentLoading, commercePaymentHash,
                 refundDestination, sends, submitted>>
  /\ spent' = 0

\* checkBalances: await publicClient.getBalance(...) settles; setEthBalance
\* or the catch block, which logs; the finally block
CheckEthRead(run, read) ==
  /\ run.pc = "eth"
  /\ ethBalance' = IF read.ok THEN bigint(read.value) ELSE ethBalance
  /\ checkingBalance' = FALSE
  /\ checks' = Ended(checks, run)
  /\ event' = [kind |-> "balance", asset |-> "ETH", read |-> read]
  /\ UNCHANGED <<sessionFrame, transferHash, usdcBalance, transferLoading,
                 commercePaymentLoading, commercePaymentHash,
                 refundDestination, sends, submitted, spent>>

\* a send handler returns at its gate
GatedOut(gate) ==
  /\ event' = [kind |-> "toast",
               toasts |-> {IF gate = "no-client"
                           THEN "No session client available. Please create a wallet first."
                           ELSE "Insufficient USDC balance. Please fund your wallet first."}]
  /\ UNCHANGED <<transferHash, transferLoading, commercePaymentLoading,
                 refundDestination, sends, submitted, spent>>

\* click on Send 0.01 USDC: sendUSDC up to the await of sendTransaction
sendUSDC ==
  /\ page = IndexPage
  /\ sessionClient # Null
  /\ ~(transferLoading \/ sendGate(sessionClient, usdcBalance, AMOUNT_USDC) # "submit")
  /\ Len(submitted) < MaxOps
  /\ LET gate == sendGate(sessionClient, usdcBalance, AMOUNT_USDC)
         started == transfer(TARGET_ADDRESS, AMOUNT_USDC, USDC_TOKEN_ADDRESS)
     IN IF gate # "submit" THEN GatedOut(gate)
        ELSE /\ transferLoading' = TRUE
             /\ submitted' = submitted \o started.calls
             /\ sends' = Started(sends, [kind |-> "sendUSDC", started |-> started,
                                         address |-> walletAddress])
             /\ spent' = spent + AMOUNT_USDC
             /\ event' = NoEvent
             /\ UNCHANGED <<transferHash, commercePaymentLoading,
                            refundDestination>>
  /\ UNCHANGED <<sessionFrame, usdcBalance, ethBalance, checkingBalance,
                 commercePaymentHash, checks>>

\* executeCommercePayment(kernelClient, transferIntentData, paymasterClient)
\* up to its await
executeCommercePayment(client, refund) ==
  Awaits([to |-> COMMERCE_CONTRACT_ADDRESS, value |-> 0,
          data |-> [functionName |-> "subsidizedTransferToken",
                    args |-> <<refund, client.account>>]])

\* click on Pay 0.01 USDC via Coinbase Commerce: handleCommercePayment up to
\* the await of sendTransaction.  commerceData.callData is the callData object
\* of PAYMENT_DETAILS itself.
handleCommercePayment ==
  /\ page = IndexPage
  /\ sessionClient # Null
  /\ ~(commercePaymentLoading
        \/ sendGate(sessionClient, usdcBalance, AMOUNT_USDC) # "submit")
  /\ Len(submitted) < MaxOps
  /\ LET gate == sendGate(sessionClient, usdcBalance, AMOUNT_USDC)
         refund == IF walletInfo # Null THEN walletInfo.address
                   ELSE refundDestination
         started == executeCommercePayment(sessionClient, refund)
     IN IF gate # "submit" THEN GatedOut(gate)
        ELSE /\ commercePaymentLoading' = TRUE
             /\ refundDestination' = refund
             /\ submitted' = submitted \o started.calls
             /\ sends' = Started(sends, [kind |-> "handleCommercePayment",
                                         started |-> started,
                                         address |-> walletAddress])
             /\ spent' = spent + AMOUNT_USDC
             /\ event' = NoEvent
             /\ UNCHANGED <<transferHash, transferLoading>>
  /\ UNCHANGED <<sessionFrame, usdcBalance, ethBalance, checkingBalance,
                 commercePaymentHash, checks>>

\* click on the send button of part_000: sendDonation up to the await of
\* sendTransaction
sendDonation ==
  /\ page = DonationPage
  /\ sessionClient # Null
  /\ ~(transferLoading \/ sessionClient = Null)
  /\ Len(submitted) < MaxOps
  /\ LET gate == donationGate(sessionClient)
         started == transferNative(TARGET_ADDRESS, AMOUNT_ETH)
     IN IF gate # "submit" THEN GatedOut(gate)
        ELSE /\ transferLoading' = TRUE
             /\ submitted' = submitted \o started.calls
             /\ sends' = Started(sends, [kind |-> "sendDonation",
                                         started |-> started,
                                         address |-> walletAddress])
             /\ event' = NoEvent
             /\ UNCHANGED spent
             /\ UNCHANGED <<transferHash, commercePaymentLoading,
                            refundDestination>>
  /\ UNCHANGED <<sessionFrame, usdcBalance, ethBalance, checkingBalance,
                 commercePaymentHash, checks>>

SuccessToast(kind) ==
  CASE kind = "sendUSDC" -> "Successfully sent 0.01 USDC!"
    [] kind = "handleCommercePayment" -> "Coinbase Commerce payment successful!"
    [] kind = "sendDonation" -> "Successfully sent 0.01 USD worth of ETH!"

ErrorToast(kind) ==
  CASE kind = "sendUSDC" -> "Error sending USDC"
    [] kind = "handleCommercePayment" -> "Payment failed. Check console for details."
    [] kind = "sendDonation" -> "Error sending funds"

\* the await of sendTransaction settles in a send handler: the hash is kept
\* and, on index.tsx, a timer is set for checkBalances; or the catch block
\* reports the rejection; the finally block
SendSettle(run, accepted) ==
  LET outcome == Settled(run.started, accepted)
      done == outcome.ends = "return"
      commerce == run.kind = "handleCommercePayment"
  IN /\ sends' = Ended(sends, run)
     /\ transferHash' = IF done /\ ~commerce THEN outcome.value
                         ELSE transferHash
     /\ commercePaymentHash' = IF done /\ commerce THEN outcome.value
                                ELSE commercePaymentHash
     /\ transferLoading' = IF commerce THEN transferLoading ELSE FALSE
     /\ commercePaymentLoading' = IF commerce THEN FALSE
                                   ELSE commercePaymentLoading
     /\ checks' = IF done /\ run.kind # "sendDonation"
                  THEN Started(checks, [pc |-> "timer", address |-> run.address])
                  ELSE checks
     /\ submitted' = IF done THEN submitted
                     ELSE submitted \o resubmitted(run.started)
     /\ event' = [kind |-> "toast",
                  toasts |-> {IF done THEN SuccessToast(run.kind)
                              ELSE ErrorToast(run.kind)}]
     /\ UNCHANGED <<sessionFrame, usdcBalance, ethBalance, checkingBalance,
                    refundDestination, spent>>

PayNext ==
  \/ checkBalances
  \/ \E run \in BagToSet(checks) : TimerFires(run)
  \/ \E run \in BagToSet(checks), read \in UsdcReads : CheckUsdcRead(run, read)
  \/ \E run \in BagToSet(checks), read \in EthReads : CheckEthRead(run, read)
  \/ sendUSDC
  \/ handleCommercePayment
  \/ sendDonation
  \/ \E run \in BagToSet(sends), accepted \in BOOLEAN : SendSettle(run, accepted)
  \/ page = IndexPage /\ resetWallet
  \/ \E req \in net : Deliver(req)
  \/ \E req \in net : Lose(req)

SpecPay == PayInit /\ [][PayNext]_vars

\* ------------------------------------- the page with all its async runs
\* click on Fund Wallet: fundUserWallet up to its await of fundWallet
FundStart ==
  /\ page = IndexPage
  /\ walletInfo # Null
  /\ ~isLoading
  /\ BagCardinality(checks) < MaxChecks
  /\ isLoading' = TRUE
  /\ checks' = Started(checks, [pc |-> "fund", address |-> walletInfo.address])
  /\ event' = NoEvent
  /\ UNCHANGED <<storeVars, net, envVars, privyVars, sessionVars,
                 isInitialized, transferHash, usdcBalance, ethBalance,
                 payFlagVars, refundDestination, sends, submitted, call,
                 result, spent, runVars, historyVars>>

\* the finally block of fundUserWallet: setIsLoading(false)
fundFinallyNone == isLoading
fundFinally == FALSE

\* fundWallet settles: the timer for checkBalances is set, or the catch block
\* reports; the finally block
FundSettle(run, funded) ==
  /\ run.pc = "fund"
  /\ isLoading' = fundFinally
  /\ checks' = IF funded THEN Stepped(checks, run, [run EXCEPT !.pc = "timer"])
               ELSE Ended(checks, run)
  /\ event' = [kind |-> "toast",
               toasts |-> {IF funded THEN "Funding process initiated!"
                           ELSE "Failed to fund wallet"}]
  /\ UNCHANGED <<storeVars, net, envVars, privyVars, sessionVars,
                 isInitialized, transferHash, usdcBalance, ethBalance,
                 payFlagVars, refundDestination, sends, submitted, call,
                 result, spent, runVars, historyVars>>

\* the page after createWalletAndSessionKey has returned and a balance check
\* has read a balance that covers a send
FundedInit ==
  /\ sdkLinked = TRUE
  /\ page = IndexPage
  /\ file = FileOf("u1", Created)
  /\ lastRequest = Null
  /\ lastResponse = Null
  /\ server = {}
  /\ net = {}
  /\ authenticated = TRUE
  /\ user = "u1"
  /\ wallets = <<"privy">>
  /\ walletInfo = Created.walletInfo
  /\ sessionKeyInfo = Created.sessionKeyInfo
  /\ kernelClient = KernelClient(Created.walletInfo.address)
  /\ sessionClient = KernelClient(Created.sessionKeyInfo.accountAddress)
  /\ isLoading = FALSE
  /\ isInitialized = TRUE
  /\ transferHash = Null
  /\ usdcBalance = bigint(AMOUNT_USDC)
  /\ ethBalance = bigint(0)
  /\ checkingBalance = FALSE
  /\ transferLoading = FALSE
  /\ commercePaymentLoading = FALSE
  /\ commercePaymentHash = Null
  /\ refundDestination = PaymentRefundDestination
  /\ checks = EmptyBag
  /\ sends = EmptyBag
  /\ submitted = <<>>
  /\ call = Null
  /\ result = Null
  /\ spent = 0
  /\ restores = EmptyBag
  /\ creates = EmptyBag
  /\ event = NoEvent
  /\ returned = [uid |-> "u1", smartWallet |-> Created.walletInfo,
                 reloaded |-> FALSE]

\* the page is loaded and the store holds a record for u1, or the page holds
\* a created wallet whose balance has been read
LiveInit ==
  \/ /\ Init
     /\ sdkLinked = TRUE
     /\ file = FileOf("u1", OtherIndexRecord)
  \/ FundedInit

\* the awaited calls of the runs in flight return or throw
RestoreSteps ==
  \/ \E op \in BagToSet(restores) : RestoreGot(op)
  \/ \E op \in BagToSet(restores) : RestoreDerived(op)
  \/ \E op \in BagToSet(restores) : RestoreLinked(op)

CreateSteps ==
  \/ \E op \in BagToSet(creates), sk \in Keys : CreateDerived(op, sk)
  \/ \E op \in BagToSet(creates) : CreateLinked(op)
  \/ \E op \in BagToSet(creates) : CreatePosted(op)

FundSteps ==
  \E run \in BagToSet(checks), funded \in BOOLEAN : FundSettle(run, funded)

SendSteps ==
  \E run \in BagToSet(sends), accepted \in BOOLEAN : SendSettle(run, accepted)

LiveNext ==
  \/ \E u \in Accounts : Login(u)
  \/ handleLogout
  \/ \E wl \in WalletLists : WalletsChange(wl)
  \/ RestoreSteps
  \/ \E k \in Keys : CreateStart(k)
  \/ CreateSteps
  \/ FundStart
  \/ FundSteps
  \/ sendUSDC
  \/ handleCommercePayment
  \/ SendSteps

\* the indexes of the stored wallets
StoredIndexes == {AccountIndex, AccountIndex + 1}

\* the restore run of user u at step pc that read the record of owner key ok,
\* session key sk and index i (a run that awaits the GET has read none)
RestoreRun(op, pc, u, ok, sk, i) ==
  /\ op.pc = pc
  /\ op.uid = u
  /\ \/ pc = "get"
     \/ /\ op.walletData.privateKey = ok
        /\ op.sessionData.privateKey = sk
        /\ op.walletData.index = toString(i)

\* the create run of user u at step pc with owner key k and session key sk
\* (a run that has not derived the owner account has generated none)
CreateRun(op, pc, u, k, sk) ==
  /\ op.pc = pc
  /\ op.uid = u
  /\ op.walletKey = k
  /\ pc = "derive" \/ op.sessionKey = sk

\* the fundUserWallet run for the wallet of owner key k at index i
FundRun(run, k, i) ==
  /\ run.pc = "fund"
  /\ run.address.sudo = k
  /\ run.address.index = i

\* the awaited call of every run in flight returns or throws
CallsSettle ==
  /\ \A u \in Accounts :
       WF_vars(\E op \in BagToSet(restores) :
                 RestoreRun(op, "get", u, 0, 0, 0) /\ RestoreGot(op))
  /\ \A u \in Accounts, ok \in Keys, sk \in Keys, i \in StoredIndexes :
       /\ WF_vars(\E op \in BagToSet(restores) :
                    RestoreRun(op, "derive", u, ok, sk, i) /\ RestoreDerived(op))
       /\ WF_vars(\E op \in BagToSet(restores) :
                    RestoreRun(op, "link", u, ok, sk, i) /\ RestoreLinked(op))
  /\ \A u \in Accounts, k \in Keys :
       WF_vars(\E op \in BagToSet(creates), sk \in Keys :
                 CreateRun(op, "derive", u, k, 0) /\ CreateDerived(op, sk))
  /\ \A u \in Accounts, k \in Keys, sk \in Keys :
       /\ WF_vars(\E op \in BagToSet(creates) :
                    CreateRun(op, "link", u, k, sk) /\ CreateLinked(op))
       /\ WF_vars(\E op \in BagToSet(creates) :
                    CreateRun(op, "post", u, k, sk) /\ CreatePosted(op))
  /\ \A k \in Keys, i \in StoredIndexes :
       WF_vars(\E run \in BagToSet(checks), funded \in BOOLEAN :
                 FundRun(run, k, i) /\ FundSettle(run, funded))
  /\ \A kind \in {"sendUSDC", "handleCommercePayment"} :
       WF_vars(\E run \in BagToSet(sends), accepted \in BOOLEAN :
                 run.kind = kind /\ SendSettle(run, accepted))

SpecLive ==
  /\ LiveInit
  /\ [][LiveNext]_vars
  /\ CallsSettle

\* ------------------------------------------------------------ properties
\* the session is Uninitialized
Uninitialized ==
  /\ walletInfo = Null
  /\ sessionKeyInfo = Null
  /\ kernelClient = Null
  /\ sessionClient = Null

\* the record the store serves for userId u, Null when it serves none
Served(f, u) == Lookup(readStorageData(f), u)

\* a dependency of the loadExistingWallet effect changes: the effect runs again
restoreTrigger ==
  \/ \E u \in Accounts : Login(u)
  \/ handleLogout
  \/ \E wl \in WalletLists : WalletsChange(wl)

\* C1: a create whose session-bound account has another address than the
\* owner-derived smart wallet fails and writes no record: no create is about
\* to post, and no create has returned a wallet, with the two addresses apart.
LinkageMismatchAbortsCreate ==
  /\ \A op \in BagToSet(creates) :
       op.pc = "post" =>
         ~linkageMismatch(op.sessionInfo.accountAddress, op.smartWalletInfo.address)
  /\ (event.kind = "created" /\ event.value # Null) =>
       ~linkageMismatch(event.value.sessionKey.accountAddress,
                        event.value.smartWallet.address)

\* C2: create is atomic: when a create returns without a wallet the session
\* is Uninitialized, and a create whose store write failed reports no success
\* and returns no wallet.
CreateIsAtomic ==
  event.kind = "created" =>
    /\ event.value = Null => Uninitialized
    /\ "Failed to save wallet data" \in event.toasts =>
         /\ event.value = Null
         /\ "Session Key created and linked to smart wallet on BASE!"
              \notin event.toasts

\* C3: whenever a session client exists, its account address is the address
\* held in walletInfo.
ActiveSessionLinked ==
  sessionClient # Null =>
    /\ walletInfo # Null
    /\ toLowerCase(sessionClient.account) = toLowerCase(walletInfo.address)

\* C4: a restore that could not replay the stored record ends with the
\* session Uninitialized and the record of its userId deleted from the store.
CorruptRecordSelfHeals ==
  (event.kind = "restored" /\ event.outcome = "failed") =>
    /\ Uninitialized
    /\ Served(file, event.uid) = Null

\* C5: after a create reported success, a restore for the same userId in a
\* page loaded anew, whose GET the store answered, finds the record, and when
\* it ends Active it shows the address and the index the create returned.
CreateRestoreRoundTrip ==
  ( /\ event.kind = "restored"
    /\ event.status # 0
    /\ returned # Null
    /\ returned.reloaded
    /\ returned.uid = event.uid
    /\ returned.smartWallet # WasReset ) =>
    /\ event.status = 200
    /\ event.outcome = "loaded" =>
         /\ walletInfo # Null
         /\ walletInfo.address = returned.smartWallet.address
         /\ walletInfo.index = returned.smartWallet.index

\* C6: after a create and then a reset for the same userId, a restore for it
\* in a page loaded anew, whose GET the store answered, ends not-found.
ResetThenRestoreNotFound ==
  ( /\ event.kind = "restored"
    /\ event.status # 0
    /\ returned # Null
    /\ returned.reloaded
    /\ returned.uid = event.uid
    /\ returned.smartWallet = WasReset ) =>
    /\ event.status = 404
    /\ event.outcome = "notfound"

\* C7: once a restore has completed (isInitialized is set), a further trigger
\* of the restore effect starts no run (so no store read and no derivation),
\* changes no session field and no flag, and leaves the store as it was.
RestoreIdempotent ==
  [][(isInitialized /\ restoreTrigger) =>
       UNCHANGED <<file, net, sessionVars, flagVars, restores, creates>>]_vars

\* the restore effect was triggered again (by a logout) with the session Active
RestoreRetriggered ==
  /\ isInitialized
  /\ walletInfo # Null
  /\ sessionClient # Null
  /\ event.kind = "toast"
  /\ "Logged out successfully" \in event.toasts

\* C8: a restore ends not-found exactly when the store answered that it holds
\* no record for the userId, out of a storage file it could parse.
NotFoundIffNoRecord ==
  event.kind = "restored" =>
    (event.outcome = "notfound" <=> (event.status = 404 /\ WellFormed(file)))

\* C9: createWalletAndSessionKey begins only from Uninitialized: with no
\* other create in flight, no restore in flight and no wallet held.
CreateOnlyFromUninitialized ==
  [][(\E k \in Keys : CreateStart(k)) =>
       (creates = EmptyBag /\ restores = EmptyBag /\ Uninitialized)]_vars

\* C10: a POST or DELETE for one userId leaves what the store serves for
\* every other userId as it was: the same record, or none.
StoreNonInterference ==
  [][\A b \in Users :
       ( /\ lastRequest' # Null
         /\ lastRequest'.method \in {"POST", "DELETE"}
         /\ lastRequest'.userId # b ) =>
         Served(file', b) = Served(file, b)]_vars

\* a POST for one userId was saved while the store holds another's record
OtherRecordKept ==
  /\ lastRequest # Null
  /\ lastRequest.method = "POST"
  /\ lastResponse.status = 200
  /\ \E b \in Users : b # lastRequest.userId /\ Served(file, b) # Null


\* the record the storage file holds for userId u as an own property, Null
\* when it holds none: the map the store stands for
OwnRecord(f, u) ==
  IF HasKey(readStorageData(f), u) THEN Lookup(readStorageData(f), u) ELSE Null

\* a request the API route does not answer 400 or 405
ValidRequest(req) ==
  /\ req.method \in {"GET", "POST", "DELETE"}
  /\ IsUserId(req.userId)
  /\ req.method = "POST" => (req.walletInfo # Null /\ req.sessionKeyInfo # Null)

\* C11: the handler refines a map from userId to record: a valid GET answers
\* 200 with the record the map holds for u and 404 when it holds none, a
\* valid DELETE answers 200 when it holds one and 404 when not and leaves
\* none, a valid POST leaves exactly the posted record, and no request
\* changes the record of another userId.
HandlerRefinesMap ==
  [][(lastRequest' # Null /\ ValidRequest(lastRequest')) =>
       LET req == lastRequest'
           u == req.userId
           before == OwnRecord(file, u)
       IN /\ \A v \in StoreIds \ {u} : OwnRecord(file', v) = OwnRecord(file, v)
          /\ req.method = "GET" =>
               /\ OwnRecord(file', u) = before
               /\ lastResponse' = IF before = Null
                                  THEN [status |-> 404, body |-> Null]
                                  ELSE [status |-> 200, body |-> before]
          /\ req.method = "POST" =>
               /\ lastResponse'.status = 200
               /\ OwnRecord(file', u) = [walletInfo |-> req.walletInfo,
                                         sessionKeyInfo |-> req.sessionKeyInfo]
          /\ req.method = "DELETE" =>
               /\ lastResponse'.status = IF before = Null THEN 404 ELSE 200
               /\ OwnRecord(file', u) = Null]_vars


\* the invocations that are inside fs.writeFileSync or about to enter it
Writers == {w \in server : w.pc \in {"open", "write"}}

\* the whole texts of the storage file a reader may rightly see: the text
\* before and the text after each write in progress, the file itself when
\* none is in progress
CompleteFiles ==
  IF Writers = {} THEN {file}
  ELSE {w.old : w \in Writers} \cup {w.out : w \in Writers}

\* C12: a GET that is answered while other requests are outstanding is
\* answered from a whole storage file: the response is the one the file
\* before or the file after a write in progress gives, never one read out of
\* a partially written file.
NoTornReads ==
  [][\A run \in server :
       ((\A r \in server' : r.req # run.req) /\ run.req.method = "GET") =>
         lastResponse' \in {Answer(f, run.req) : f \in CompleteFiles}]_vars

\* a GET for a userId waits while a POST for the same userId has the storage
\* file cut to no bytes
ReaderWaitsForWriter ==
  \E w \in server :
    /\ w.pc = "write"
    /\ w.req.method = "POST"
    /\ file = EmptyFile
    /\ OwnRecord(w.old, w.req.userId) # Null
    /\ \E g \in net : g.method = "GET" /\ g.userId = w.req.userId


\* the recipient of a request handed to sendTransaction: the second argument
\* of a token transfer, the target of a plain one
RecipientOf(request) ==
  IF request.data = EmptyData THEN request.to ELSE request.data.args[1]

\* C15: for a well-formed recipient, transfer without a token address hands
\* sendTransaction exactly one plain value transfer (to the recipient, the
\* amount as value, empty data), transfer with a token address exactly one
\* call of the token contract with value 0, and a transfer that returns
\* returns the hash of that operation.
BothTransferPathsSubmit ==
  (call # Null /\ isAddress(call.toAddress)) =>
    /\ Len(result.calls) = 1
    /\ call.tokenAddress = Omitted =>
         result.calls = <<[to |-> call.toAddress, value |-> call.amount,
                           data |-> EmptyData]>>
    /\ call.tokenAddress # Omitted =>
         /\ result.calls[1].to = call.tokenAddress
         /\ result.calls[1].value = 0
         /\ RecipientOf(result.calls[1]) = call.toAddress
    /\ result.ends = "return" => result.value = HashOf(result.calls[1])

\* C16: a transfer to a recipient that is no well-formed address throws and
\* hands sendTransaction nothing, and every request handed to sendTransaction
\* has a well-formed recipient.
InvalidRecipientRejected ==
  call # Null =>
    /\ ~isAddress(call.toAddress) =>
         (result.ends = "throw" /\ result.calls = <<>>)
    /\ \A i \in 1..Len(result.calls) : isAddress(RecipientOf(result.calls[i]))


\* the balance state of the asset a request spends, and the amount it spends
AssetBalance(request) ==
  IF request.data = EmptyData THEN ethBalance ELSE usdcBalance

Requested(request) ==
  IF request.data = EmptyData THEN request.value ELSE AMOUNT_USDC

\* C13: a send handler hands a request to sendTransaction only if the last
\* balance read for the asset is at least the amount the request spends.
BalanceGating ==
  [][\A i \in (Len(submitted) + 1)..Len(submitted') :
       /\ AssetBalance(submitted'[i]) # Null
       /\ AssetBalance(submitted'[i]).bigint >= Requested(submitted'[i])]_vars


\* the USDC balance in the state comes from no successful read: none has
\* completed yet, or the read just made failed
BalanceUnavailable ==
  \/ usdcBalance = Null
  \/ event.kind = "balance" /\ event.asset = "USDC" /\ ~event.read.ok

\* C14: while the USDC balance in the state comes from no successful read,
\* the gate of sendUSDC and handleCommercePayment does not come out as
\* insufficient balance.
UnavailableNeverInsufficient ==
  [][(page' = IndexPage /\ sessionClient' # Null /\ BalanceUnavailable')
       => sendGate(sessionClient', usdcBalance', AMOUNT_USDC) # "insufficient"]_vars


ErrorToasts == {ErrorToast(k) : k \in {"sendUSDC", "handleCommercePayment", "sendDonation"}}
SuccessToasts == {SuccessToast(k) : k \in {"sendUSDC", "handleCommercePayment", "sendDonation"}}

\* C17: a step hands sendTransaction a request only when a send handler is
\* started by a click, and then exactly one; the step in which a send settles
\* hands it none: it either reports the rejection with an error toast or
\* reports success and keeps the operation hash.
OneSendOneOperation ==
  [][/\ Len(submitted') > Len(submitted) =>
          /\ Len(submitted') = Len(submitted) + 1
          /\ BagCardinality(sends') = BagCardinality(sends) + 1
     /\ BagCardinality(sends') > BagCardinality(sends) =>
          Len(submitted') = Len(submitted) + 1
     /\ BagCardinality(sends') < BagCardinality(sends) =>
          /\ submitted' = submitted
          /\ event'.kind = "toast"
          /\ \/ event'.toasts \subseteq ErrorToasts
             \/ /\ event'.toasts \subseteq SuccessToasts
                /\ transferHash' # Null \/ commercePaymentHash' # Null]_vars

\* a send was rejected and has settled, with the one request it made
RejectedSendSettled ==
  /\ sends = EmptyBag
  /\ Len(submitted) = 1
  /\ event.kind = "toast"
  /\ event.toasts = {"Error sending USDC"}


ResetToast == "Wallet data cleared. You can now create a new wallet."

\* the in-memory session with its transfer hash and balances
sessionFields ==
  <<walletInfo, sessionKeyInfo, kernelClient, sessionClient, transferHash,
    usdcBalance, ethBalance>>

\* C18: resetWallet leaves walletInfo, sessionKeyInfo, kernelClient,
\* sessionClient, transferHash and both balances null in the step it is
\* clicked, before its DELETE has any outcome; and the outcome of a DELETE
\* (it reaches the store and is answered 200 or 404, or it fails) changes none
\* of them and shows the user nothing: a failure is only logged.
ResetClearsSession ==
  [][/\ (event'.kind = "toast" /\ ResetToast \in event'.toasts) =>
          \A i \in 1..Len(sessionFields) : sessionFields'[i] = Null
     /\ (net' # net /\ net' \subseteq net) =>
          /\ sessionFields' = sessionFields
          /\ event'.kind \in {"none", "console"}]_vars

\* a session with a transfer hash and balances was reset and the DELETE
\* failed: the record is still stored
ResetDeletionFailed ==
  /\ \A i \in 1..Len(sessionFields) : sessionFields[i] = Null
  /\ submitted # <<>>
  /\ net = {}
  /\ event.kind = "console"
  /\ OwnRecord(file, "u1") # Null


\* the index a run derived its owner account with and put into walletInfo
RunIndex(run) ==
  BigIntOf(IF run \in BagToSet(restores) THEN run.walletData.index
           ELSE run.smartWalletInfo.index)

\* the run took the step
Took(runs, run) == CopiesIn(run, runs') < CopiesIn(run, runs)

\* C19: a step of create or restore that sets the kernel client sets with it
\* a walletInfo whose index is the one the owner account was derived with,
\* and a step of a run that sets the session client derives the session
\* account with the index that run derived its owner account with.
SharedAccountIndex ==
  [][/\ (kernelClient' # kernelClient /\ kernelClient' # Null) =>
          /\ walletInfo' # Null
          /\ kernelClient'.account.index = BigIntOf(walletInfo'.index)
     /\ \A run \in BagToSet(restores) :
          (run.pc = "link" /\ Took(restores, run)
             /\ sessionClient' # sessionClient /\ sessionClient' # Null) =>
            sessionClient'.account.index = RunIndex(run)
     /\ \A run \in BagToSet(creates) :
          (run.pc = "link" /\ Took(creates, run)
             /\ sessionClient' # sessionClient /\ sessionClient' # Null) =>
            sessionClient'.account.index = RunIndex(run)]_vars

\* a wallet stored at another index than the one create uses was restored
OtherIndexRestored ==
  /\ walletInfo = OtherIndexRecord.walletInfo
  /\ kernelClient # Null
  /\ kernelClient.account.index = AccountIndex + 1
  /\ sessionClient # Null
  /\ sessionClient.account.index = AccountIndex + 1
  /\ event.kind = "restored"
  /\ event.outcome = "loaded"


\* what no balance check and no send may change
framed == <<sessionVars, file, privyVars, flagVars, refundDestination>>

\* C20: a step of a balance check changes only usdcBalance, ethBalance and
\* checkingBalance; a step of a send changes only the hash it keeps
\* (transferHash, commercePaymentHash for the commerce payment) and its
\* loading flag; neither changes walletInfo, sessionKeyInfo, kernelClient,
\* sessionClient, the stored record or any other state of the page.
ChecksAndSendsFramed ==
  [][/\ (checks' # checks /\ sends' = sends) =>
          UNCHANGED <<framed, transferHash, transferLoading,
                      commercePaymentHash, commercePaymentLoading>>
     /\ sends' # sends =>
          UNCHANGED <<framed, usdcBalance, ethBalance, checkingBalance>>]_vars


\* the walletInfo objects createWalletAndSessionKey builds
CreatedWallets ==
  { WalletInfoOf(KernelAddress(k, NoPlugin, AccountIndex), k, AccountIndex) :
      k \in Keys }

\* C21: when a restore derives the owner account again from a walletInfo that
\* a create built (same private key, same index, same network), the address
\* of the account it derives is the address stored in walletInfo.address.
DerivationDeterministic ==
  [][\A run \in BagToSet(restores) :
       (/\ run.pc = "derive"
        /\ Took(restores, run)
        /\ run.walletData \in CreatedWallets
        /\ CopiesIn([run EXCEPT !.pc = "link"], restores')
             > CopiesIn([run EXCEPT !.pc = "link"], restores))
         => /\ walletInfo' = run.walletData
            /\ kernelClient' = KernelClient(run.walletData.address)]_vars

\* the wallet a create returned was stored, the page was loaded anew, and a
\* restore has derived its owner account again
CreatedWalletRederived ==
  /\ returned # Null
  /\ returned.reloaded
  /\ walletInfo = returned.smartWallet
  /\ walletInfo \in CreatedWallets
  /\ kernelClient = KernelClient(walletInfo.address)
  /\ \E run \in BagToSet(restores) : run.pc = "link"


\* C22: while no create and no restore is in flight, walletInfo,
\* sessionKeyInfo and sessionClient are all null or all set.
SessionConsistent ==
  (restores = EmptyBag /\ creates = EmptyBag) =>
    \/ walletInfo = Null /\ sessionKeyInfo = Null /\ sessionClient = Null
    \/ walletInfo # Null /\ sessionKeyInfo # Null /\ sessionClient # Null


\* the store holds, for the user of the last create that reported success,
\* the record of the wallet that create returned
HoldsReturned(f) ==
  /\ OwnRecord(f, returned.uid) # Null
  /\ OwnRecord(f, returned.uid).walletInfo = returned.smartWallet

\* C23: once the store holds the record of the wallet a create returned, it
\* goes on holding it as long as no reset is invoked and no other create
\* reports success: no step takes it out of the store.
SavedRecordPersists ==
  [][(/\ returned # Null
      /\ returned.smartWallet # WasReset
      /\ returned' = returned
      /\ HoldsReturned(file))
       => HoldsReturned(file')]_vars


\* C24: as long as reset is not invoked, a record the store holds for a user
\* is not replaced: no step of the page changes it.
NoSilentKeyLoss ==
  [][\A u \in Users :
       OwnRecord(file, u) # Null => OwnRecord(file', u) = OwnRecord(file, u)]_vars


\* C25: while a user is authenticated, a walletInfo and a session client in
\* memory are those of the record of that user.
CrossUserIsolation ==
  (authenticated /\ user # Undefined) =>
    /\ walletInfo # Null => walletInfo = RecordOf(user).walletInfo
    /\ sessionClient # Null =>
         sessionClient = KernelClient(RecordOf(user).sessionKeyInfo.accountAddress)


\* C26: the USDC handed to sendTransaction since the last USDC balance read
\* completed never exceeds the balance that read returned.
NoOverspending ==
  usdcBalance # Null => spent <= usdcBalance.bigint


\* C27: a balance in the state was read for the wallet in the state: while
\* walletInfo is null, as it is after a reset, both balances are null.
BalanceOfCurrentWallet ==
  walletInfo = Null => (usdcBalance = Null /\ ethBalance = Null)


\* C28: at most one run of loadExistingWallet is in flight.
OneRestoreInFlight == BagCardinality(restores) <= 1


\* the fundUserWallet runs among the runs in flight
Funding(b) == [run \in {r \in BagToSet(b) : r.pc = "fund"} |-> b[run]]

\* C29: the end of a restore, of a create and of a fund sets isLoading to
\* false, and the end of a restore sets isInitialized to true; the end of a
\* sendUSDC sets transferLoading to false and the end of a
\* handleCommercePayment sets commercePaymentLoading to false, whether the
\* awaited call returned or threw; and when the awaited calls return or throw,
\* every loading flag that is set comes back to false.
LoadingFlagsReleased ==
  /\ [][/\ BagCardinality(restores') < BagCardinality(restores)
            => (~isLoading' /\ isInitialized')
        /\ BagCardinality(creates') < BagCardinality(creates) => ~isLoading'
        /\ BagCardinality(Funding(checks')) < BagCardinality(Funding(checks))
            => ~isLoading'
        /\ \A run \in BagToSet(sends) :
             CopiesIn(run, sends') < CopiesIn(run, sends)
               => IF run.kind = "handleCommercePayment"
                  THEN ~commercePaymentLoading'
                  ELSE ~transferLoading']_vars
  /\ isLoading ~> ~isLoading
  /\ transferLoading ~> ~transferLoading
  /\ commercePaymentLoading ~> ~commercePaymentLoading

\* the catch block of sendUSDC has reported a rejected send, no send is in
\* flight and the loading flags are down
SendRejectedFlagDown ==
  /\ event.kind = "toast"
  /\ "Error sending USDC" \in event.toasts
  /\ sends = EmptyBag
  /\ ~transferLoading
  /\ ~isLoading
  /\ isInitialized


\* the map from userId to record is the same after the step
MapUnchanged == \A v \in StoreIds : OwnRecord(file', v) = OwnRecord(file, v)

\* C30: a GET, POST or DELETE whose userId is missing or no string is
\* answered 400, a POST without walletInfo or without sessionKeyInfo 400, a
\* DELETE for a userId the map holds no record for 404, any other method 405;
\* and each of these requests, and every GET, leaves the map from userId to
\* record as it was.
InvalidRequestsRejected ==
  [][lastRequest' # Null =>
       LET req == lastRequest'
           status == lastResponse'.status
           known == req.method \in {"GET", "POST", "DELETE"}
       IN /\ (known /\ ~IsUserId(req.userId)) => (status = 400 /\ MapUnchanged)
          /\ (req.method = "POST"
                /\ (req.walletInfo = Null \/ req.sessionKeyInfo = Null))
               => (status = 400 /\ MapUnchanged)
          /\ (req.method = "DELETE" /\ IsUserId(req.userId)
                /\ OwnRecord(file, req.userId) = Null)
               => (status = 404 /\ MapUnchanged)
          /\ ~known => (status = 405 /\ MapUnchanged)
          /\ req.method = "GET" => MapUnchanged]_vars

====
